---------------------------- MODULE Spec2Model ----------------------------
(***************************************************************************)
(* State-machine model of the asynchronous task / scheduling subsystem of  *)
(* the SQL workbench: the background_tasks ledger and its two executors    *)
(* (background_processor.py, celery_config.py), the scheduled_uploads      *)
(* table with its approval workflow (upload_manager.py) and the            *)
(* process-local APScheduler registry (scheduler_manager.py).              *)
(***************************************************************************)
EXTENDS Integers, Sequences, FiniteSets, TLC

(* ------------------------------ bounds --------------------------------- *)
MaxTasks == 1
MaxTicks == 1
MaxUploads == 2
MaxNotifs == 1

(* ------------------------------ universe ------------------------------- *)
\* SQL NULL / Python None: an optional column holds <<>> or <<value>>.
NULL == <<>>

Some(v) == <<v>>

\* Principals and their roles (users table; st.session_state.role).
Users == {"alice", "root"}

Role(u) == IF u = "root" THEN "admin" ELSE "viewer"

\* Browser sessions: each Streamlit session runs its script in its own thread
\* with its own st.session_state; two tabs of one user are two sessions.
Sessions == {"a1", "a2", "r1"}

SessionUser(s) == IF s \in {"a1", "a2"} THEN "alice" ELSE "root"

SessionRole(s) == Role(SessionUser(s))

Tables == {"sales"}

SourceTypes == {"URL"}

\* The frequency select boxes offer Daily, Weekly, Monthly and Hourly; all of
\* them give an IntervalTrigger.
Frequencies == {"Daily"}

\* celery_config.py line 28: task_time_limit=3600 (seconds).
task_time_limit == 3600

\* int(time.time()) is far above any AUTOINCREMENT row id: the clock starts
\* above the largest row id the model can assign.
ClockStart == MaxUploads + MaxTasks + 1

VARIABLES
    now,            \* wall clock, int(time.time())
    notifications,  \* rows of table notifications (sql_gui.db), in insert order
    tasks,          \* rows of table background_tasks, index = id
    workers,        \* per task: the executor running it (thread or Celery task)
    outbox,         \* e-mails handed to EmailService, in send order
    uploads,        \* rows of table scheduled_uploads, id -> row
    nextUploadId,   \* AUTOINCREMENT counter of scheduled_uploads
    scheduler,      \* SchedulerManager._scheduler: "none" or "started"
    jobs,           \* APScheduler job store of the process: set of jobs
    sess,           \* per session: position of the running script and
                    \* st.session_state.last_notification_check
    returned,       \* the most recent handler return, <<session, value>>
    sql,            \* execute_and_display_query: the dialect and the query text
    builder,        \* QueryBuilder: the query description and the generated SQL
    ctor            \* SchedulerManager class state and the threads constructing it

commonVars == <<now, notifications>>
taskVars == <<tasks, workers, outbox>>
schedVars == <<uploads, nextUploadId, scheduler, jobs, sess, returned>>
queryVars == <<sql, builder>>
vars == <<now, notifications, tasks, workers, outbox,
          uploads, nextUploadId, scheduler, jobs, sess, returned,
          sql, builder, ctor>>

(* --------------------------- notification store ------------------------ *)
\* NotificationManager.add_notification: the INSERT into notifications.
\* The message text is kept as its parts: event (what happened) and ref
\* (the task or descriptor/table it names).
Notification(type, event, ref, username) ==
    [type |-> type, event |-> event, ref |-> ref, detail |-> NULL,
     timestamp |-> now, username |-> username, is_read |-> FALSE]

\* A session that has just started: nothing running, and app.py lines 40-41
\* set st.session_state.last_notification_check = time.time().
NewSession == [pc |-> "idle", arg |-> NULL, last_notification_check |-> now]

\* The clock advances.
Tick ==
    /\ now < ClockStart + MaxTicks
    /\ now' = now + 1
    /\ UNCHANGED <<notifications, taskVars, schedVars, queryVars, ctor>>


(* ============================ Task Ledger ============================== *)
Emails == {NULL, Some("alice@example.com")}

\* Principals that submit background queries.
Submitters == {"alice"}

\* Outcomes of the external calls an executor makes.
ConnectOutcomes == {"conn", "none", "raise"}
QueryOutcomes == {"raise", "empty", "rows", "csv_raise"}
NotifyOutcomes == {"ok", "store_fail", "raise"}

\* Row inserted by submit_background_query: status queued, the optional
\* columns NULL.
NewTask(username, email) ==
    [username |-> username, status |-> "queued", created_at |-> now,
     started_at |-> NULL, completed_at |-> NULL, result_path |-> NULL,
     error_message |-> NULL, email |-> email]

NewWorker(impl) ==
    [impl |-> impl, pc |-> "start", conn |-> "none", rows |-> "none",
     err |-> NULL, escaped |-> FALSE]

\* _update_task_status / update_task_status: UPDATE background_tasks SET
\* status = ?, and each optional column only when its argument is not None.
\* No condition on the row's current status.
UpdateTaskStatus(row, status, started_at, completed_at, result_path, error_message) ==
    [row EXCEPT
        !.status = status,
        !.started_at = IF started_at # NULL THEN started_at ELSE @,
        !.completed_at = IF completed_at # NULL THEN completed_at ELSE @,
        !.result_path = IF result_path # NULL THEN result_path ELSE @,
        !.error_message = IF error_message # NULL THEN error_message ELSE @]

\* One call of _update_task_status on task t.  The sqlite UPDATE either
\* commits (ok) or raises, and the except clause swallows the error (the
\* write is lost).
WriteTaskStatus(t, ok, status, started_at, completed_at, result_path, error_message) ==
    tasks' = IF ok
             THEN [tasks EXCEPT ![t] = UpdateTaskStatus(@, status, started_at,
                                          completed_at, result_path, error_message)]
             ELSE tasks

ResultPath(t) == Some(<<"results", t>>)

SetWorker(t, w) == workers' = [workers EXCEPT ![t] = w]

\* add_notification as called from an executor: "ok" inserts the row,
\* "store_fail" is a sqlite error swallowed by add_notification.
StoreNotification(outcome, n) ==
    notifications' = IF outcome = "ok" THEN Append(notifications, n) ELSE notifications

SendEmail(t, variant) ==
    outbox' = IF tasks[t].email # NULL
              THEN Append(outbox, [to |-> tasks[t].email, task |-> t, variant |-> variant])
              ELSE outbox

(* ---- BackgroundProcessor: submit and the detached thread -------------- *)
\* A handler returns r to the script of session s.  r stands for the value
\* the code returns: "True" for a bare True, otherwise a word for the message
\* of the (success, message) pair.
Return(s, r) ==
    /\ sess' = [sess EXCEPT ![s].pc = "idle", ![s].arg = NULL]
    /\ returned' = <<s, r>>

\* submit_background_query returns task_id.
ReturnTaskId(s, t) ==
    /\ sess' = [sess EXCEPT ![s].pc = "idle", ![s].arg = NULL]
    /\ returned' = <<s, "task_id", t>>

\* submit_background_query, lines 204-231: INSERT the queued row, commit,
\* task_id = cursor.lastrowid.  A sqlite error before the commit leaves no
\* row and the except clause returns None.
SubmitInsert(s, email) ==
    /\ sess[s].pc = "idle"
    /\ SessionUser(s) \in Submitters
    /\ Len(tasks) < MaxTasks
    /\ \E raised \in BOOLEAN :
        IF raised
        THEN /\ Return(s, "none")
             /\ UNCHANGED <<tasks, workers>>
        ELSE /\ tasks' = Append(tasks, NewTask(SessionUser(s), email))
             /\ workers' = Append(workers, [NewWorker("thread") EXCEPT !.pc = "unstarted"])
             /\ sess' = [sess EXCEPT ![s].pc = "start_thread",
                                     ![s].arg = Some(Len(tasks) + 1)]
             /\ UNCHANGED returned
    /\ UNCHANGED <<now, notifications, outbox, uploads, nextUploadId, scheduler, jobs, queryVars, ctor>>

\* lines 233-238: threading.Thread(target=_execute_background_query,
\* args=(task_id, ...)).start().  If the thread cannot be started the except
\* clause returns None and the row stays queued.
SubmitStartThread(s) ==
    /\ sess[s].pc = "start_thread"
    /\ \E raised \in BOOLEAN :
        IF raised
        THEN /\ Return(s, "none")
             /\ UNCHANGED workers
        ELSE /\ SetWorker(sess[s].arg[1], [workers[sess[s].arg[1]] EXCEPT !.pc = "start"])
             /\ sess' = [sess EXCEPT ![s].pc = "notify"]
             /\ UNCHANGED returned
    /\ UNCHANGED <<now, notifications, tasks, outbox, uploads, nextUploadId, scheduler, jobs, queryVars, ctor>>

\* Variant of SubmitNotify in which an error of add_notification reaches the
\* except clause of submit_background_query, which returns None.
SubmitNotifyUnguarded(s) ==
    /\ sess[s].pc = "notify"
    /\ \E stored \in {"ok", "store_fail"} :
        /\ StoreNotification(stored,
               Notification("background_task", "queued", sess[s].arg[1], SessionUser(s)))
        /\ IF stored = "ok" THEN ReturnTaskId(s, sess[s].arg[1]) ELSE Return(s, "none")
    /\ UNCHANGED <<now, taskVars, uploads, nextUploadId, scheduler, jobs, queryVars, ctor>>

\* lines 240-250: the "queued" notification, added from the script thread
\* (add_notification swallows a sqlite error), then return task_id.
SubmitNotify(s) ==
    /\ sess[s].pc = "notify"
    /\ \E stored \in {"ok", "store_fail"} :
           StoreNotification(stored,
               Notification("background_task", "queued", sess[s].arg[1], SessionUser(s)))
    /\ ReturnTaskId(s, sess[s].arg[1])
    /\ UNCHANGED <<now, taskVars, uploads, nextUploadId, scheduler, jobs, queryVars, ctor>>

\* submit_background_query, one statement group at a time: the thread it
\* starts runs concurrently with the rest of the call.
SubmitBackgroundQuery(s) ==
    \/ \E email \in Emails : SubmitInsert(s, email)
    \/ SubmitStartThread(s)
    \/ SubmitNotify(s)

ThreadAt(t, pc) ==
    /\ t \in DOMAIN workers
    /\ workers[t].impl = "thread"
    /\ workers[t].pc = pc

\* _execute_background_query, line 259: status running, started_at.
ExecRunning(t) ==
    /\ ThreadAt(t, "start")
    /\ \E lost \in BOOLEAN :
           WriteTaskStatus(t, ~lost, "running", Some(now), NULL, NULL, NULL)
    /\ SetWorker(t, [workers[t] EXCEPT !.pc = "connect"])
    /\ UNCHANGED <<now, notifications, outbox, schedVars, queryVars, ctor>>

\* lines 262-266: DatabaseManager().connect_to_mysql_db() returns a
\* connection, returns None, or an exception is raised inside the try.
ExecConnect(t) ==
    /\ ThreadAt(t, "connect")
    /\ \E o \in ConnectOutcomes :
           SetWorker(t, CASE o = "conn" -> [workers[t] EXCEPT !.pc = "query", !.conn = "open"]
                          [] o = "none" -> [workers[t] EXCEPT !.pc = "connfail"]
                          [] o = "raise" -> [workers[t] EXCEPT !.pc = "except",
                                                              !.err = Some("connect")])
    /\ UNCHANGED <<now, notifications, tasks, outbox, schedVars, queryVars, ctor>>

\* lines 266-272: no connection: status failed with an error message and
\* return.  No completed_at, no e-mail, no notification.
ExecConnFail(t) ==
    /\ ThreadAt(t, "connfail")
    /\ \E lost \in BOOLEAN :
           WriteTaskStatus(t, ~lost, "failed", NULL, NULL, NULL,
                           Some("Failed to connect to database"))
    /\ SetWorker(t, [workers[t] EXCEPT !.pc = "done"])
    /\ UNCHANGED <<now, notifications, outbox, schedVars, queryVars, ctor>>

\* lines 275-296: execute, fetchall, close the connection, and for a
\* non-empty result write the CSV.  An exception in execute/fetchall leaves
\* the connection open; one in to_csv comes after the close.
ExecQuery(t) ==
    /\ ThreadAt(t, "query")
    /\ \E o \in QueryOutcomes :
           SetWorker(t, CASE o = "raise" -> [workers[t] EXCEPT !.pc = "except",
                                                              !.err = Some("query")]
                          [] o = "empty" -> [workers[t] EXCEPT !.pc = "complete",
                                                  !.conn = "closed", !.rows = "empty"]
                          [] o = "rows" -> [workers[t] EXCEPT !.pc = "complete",
                                                  !.conn = "closed", !.rows = "rows"]
                          [] o = "csv_raise" -> [workers[t] EXCEPT !.pc = "except",
                                                  !.conn = "closed", !.rows = "rows",
                                                  !.err = Some("csv")])
    /\ UNCHANGED <<now, notifications, tasks, outbox, schedVars, queryVars, ctor>>

\* line 277: cursor.execute(query) is still running when task_time_limit
\* seconds have passed since the task started.  The thread has no timer and
\* nothing watches it: it keeps waiting for the query.
ExecQueryOverrun(t) ==
    /\ ThreadAt(t, "query")
    /\ now < ClockStart + task_time_limit
    /\ now' = now + task_time_limit + 1
    /\ UNCHANGED <<notifications, taskVars, schedVars, queryVars, ctor>>

\* lines 298-304 and 320-325: status completed, completed_at, and
\* result_path only in the branch with rows.
ExecCompleted(t) ==
    /\ ThreadAt(t, "complete")
    /\ \E lost \in BOOLEAN :
           WriteTaskStatus(t, ~lost, "completed", NULL, Some(now),
                           IF workers[t].rows = "rows" THEN ResultPath(t) ELSE NULL, NULL)
    /\ SetWorker(t, [workers[t] EXCEPT !.pc = "email_c"])
    /\ UNCHANGED <<now, notifications, outbox, schedVars, queryVars, ctor>>

\* lines 306-308 and 327-329: if email: _send_completion_email (which
\* swallows its own errors).
ExecCompletionEmail(t) ==
    /\ ThreadAt(t, "email_c")
    /\ SendEmail(t, "completion")
    /\ SetWorker(t, [workers[t] EXCEPT !.pc = "notify_c"])
    /\ UNCHANGED <<now, notifications, tasks, schedVars, queryVars, ctor>>

\* lines 310-318 and 331-339: build the notification from
\* st.session_state.username and add it.  Still inside the try: reading the
\* session state from the detached thread, or add_notification's own use of
\* it, can raise, and control passes to the except clause.
ExecCompletionNotify(t) ==
    /\ ThreadAt(t, "notify_c")
    /\ \E o \in NotifyOutcomes :
        /\ StoreNotification(o,
               Notification("background_task", "completed", t, tasks[t].username))
        /\ SetWorker(t, IF o = "raise"
                        THEN [workers[t] EXCEPT !.pc = "except", !.err = Some("session")]
                        ELSE [workers[t] EXCEPT !.pc = "done"])
    /\ UNCHANGED <<now, tasks, outbox, schedVars, queryVars, ctor>>

\* lines 341-348: except Exception: status failed, completed_at, error.
ExecFailed(t) ==
    /\ ThreadAt(t, "except")
    /\ \E lost \in BOOLEAN :
           WriteTaskStatus(t, ~lost, "failed", NULL, Some(now), NULL, workers[t].err)
    /\ SetWorker(t, [workers[t] EXCEPT !.pc = "email_f"])
    /\ UNCHANGED <<now, notifications, outbox, schedVars, queryVars, ctor>>

\* lines 350-352: if email: _send_failure_email.
ExecFailureEmail(t) ==
    /\ ThreadAt(t, "email_f")
    /\ SendEmail(t, "failure")
    /\ SetWorker(t, [workers[t] EXCEPT !.pc = "notify_f"])
    /\ UNCHANGED <<now, notifications, tasks, schedVars, queryVars, ctor>>

\* lines 354-362: the failure notification, outside any try: an exception
\* here leaves _execute_background_query and ends the thread.
ExecFailureNotify(t) ==
    /\ ThreadAt(t, "notify_f")
    /\ \E o \in NotifyOutcomes :
        /\ StoreNotification(o,
               Notification("background_task", "failed", t, tasks[t].username))
        /\ SetWorker(t, [workers[t] EXCEPT !.pc = "done", !.escaped = (o = "raise")])
    /\ UNCHANGED <<now, tasks, outbox, schedVars, queryVars, ctor>>

(* ---- Celery task execute_query (celery_config.py) ---------------------- *)
\* A producer creates the queued ledger row (Task Ledger create: status
\* queued, created_at now) and sends execute_query(query, task_id, username)
\* to the Celery worker.
CeleryEnqueue ==
    \E u \in Submitters, email \in Emails :
        /\ Len(tasks) < MaxTasks
        /\ tasks' = Append(tasks, NewTask(u, email))
        /\ workers' = Append(workers, NewWorker("celery"))
        /\ UNCHANGED <<now, notifications, outbox, schedVars, queryVars, ctor>>

CeleryAt(t, pc) ==
    /\ t \in DOMAIN workers
    /\ workers[t].impl = "celery"
    /\ workers[t].pc = pc

\* execute_query, line 37: status running, started_at.
CeleryRunning(t) ==
    /\ CeleryAt(t, "start")
    /\ \E lost \in BOOLEAN :
           WriteTaskStatus(t, ~lost, "running", Some(now), NULL, NULL, NULL)
    /\ SetWorker(t, [workers[t] EXCEPT !.pc = "connect"])
    /\ UNCHANGED <<now, notifications, outbox, schedVars, queryVars, ctor>>

\* lines 40-62: the driver's connect returns a connection or raises (also
\* the ValueError for an unknown db_type); there is no None result.
CeleryConnect(t) ==
    /\ CeleryAt(t, "connect")
    /\ \E o \in ConnectOutcomes \ {"none"} :
           SetWorker(t, IF o = "conn"
                        THEN [workers[t] EXCEPT !.pc = "query", !.conn = "open"]
                        ELSE [workers[t] EXCEPT !.pc = "except", !.err = Some("connect")])
    /\ UNCHANGED <<now, notifications, tasks, outbox, schedVars, queryVars, ctor>>

\* lines 65-83: execute, fetchall, and the CSV for a non-empty result.  The
\* connection is closed only at line 126, so it stays open here.
CeleryQuery(t) ==
    /\ CeleryAt(t, "query")
    /\ \E o \in QueryOutcomes :
           SetWorker(t, CASE o = "raise" -> [workers[t] EXCEPT !.pc = "except",
                                                              !.err = Some("query")]
                          [] o = "empty" -> [workers[t] EXCEPT !.pc = "complete",
                                                              !.rows = "empty"]
                          [] o = "rows" -> [workers[t] EXCEPT !.pc = "complete",
                                                             !.rows = "rows"]
                          [] o = "csv_raise" -> [workers[t] EXCEPT !.pc = "except",
                                                  !.rows = "rows", !.err = Some("csv")])
    /\ UNCHANGED <<now, notifications, tasks, outbox, schedVars, queryVars, ctor>>

\* The query of task t is still running when task_time_limit seconds have
\* passed: the hard limit makes the worker pool terminate the process that
\* runs execute_query, so no further statement of it (the except clause
\* included) is executed.
CeleryTimeLimit(t) ==
    /\ CeleryAt(t, "query")
    /\ now < ClockStart + task_time_limit
    /\ now' = now + task_time_limit + 1
    /\ SetWorker(t, [workers[t] EXCEPT !.pc = "killed"])
    /\ UNCHANGED <<notifications, tasks, outbox, schedVars, queryVars, ctor>>

\* lines 85-91 and 105-110: status completed, completed_at, result_path
\* only in the branch with rows.
CeleryCompleted(t) ==
    /\ CeleryAt(t, "complete")
    /\ \E lost \in BOOLEAN :
           WriteTaskStatus(t, ~lost, "completed", NULL, Some(now),
                           IF workers[t].rows = "rows" THEN ResultPath(t) ELSE NULL, NULL)
    /\ SetWorker(t, [workers[t] EXCEPT !.pc = "notify_c"])
    /\ UNCHANGED <<now, notifications, outbox, schedVars, queryVars, ctor>>

\* lines 93-98 and 112-117: create_task_notification swallows a sqlite error.
CeleryCompletionNotify(t) ==
    /\ CeleryAt(t, "notify_c")
    /\ \E o \in NotifyOutcomes \ {"raise"} :
           StoreNotification(o,
               Notification("background_task", "completed", t, tasks[t].username))
    /\ SetWorker(t, [workers[t] EXCEPT !.pc = "email_c"])
    /\ UNCHANGED <<now, tasks, outbox, schedVars, queryVars, ctor>>

\* lines 100-103 and 119-122: get_task_email reads the row's email;
\* send_completion_email swallows its own errors.
CeleryCompletionEmail(t) ==
    /\ CeleryAt(t, "email_c")
    /\ SendEmail(t, "completion")
    /\ SetWorker(t, [workers[t] EXCEPT !.pc = "close"])
    /\ UNCHANGED <<now, notifications, tasks, schedVars, queryVars, ctor>>

\* lines 124-133: cursor.close(), conn.close(), return; a driver error here
\* is still inside the try.
CeleryClose(t) ==
    /\ CeleryAt(t, "close")
    /\ \E raised \in BOOLEAN :
           SetWorker(t, IF raised
                        THEN [workers[t] EXCEPT !.pc = "except", !.err = Some("close")]
                        ELSE [workers[t] EXCEPT !.pc = "done", !.conn = "closed"])
    /\ UNCHANGED <<now, notifications, tasks, outbox, schedVars, queryVars, ctor>>

\* lines 135-142: except Exception: status failed, completed_at, error.
CeleryFailed(t) ==
    /\ CeleryAt(t, "except")
    /\ \E lost \in BOOLEAN :
           WriteTaskStatus(t, ~lost, "failed", NULL, Some(now), NULL, workers[t].err)
    /\ SetWorker(t, [workers[t] EXCEPT !.pc = "notify_f"])
    /\ UNCHANGED <<now, notifications, outbox, schedVars, queryVars, ctor>>

\* lines 144-149: the failure notification.
CeleryFailureNotify(t) ==
    /\ CeleryAt(t, "notify_f")
    /\ \E o \in NotifyOutcomes \ {"raise"} :
           StoreNotification(o,
               Notification("background_task", "failed", t, tasks[t].username))
    /\ SetWorker(t, [workers[t] EXCEPT !.pc = "email_f"])
    /\ UNCHANGED <<now, tasks, outbox, schedVars, queryVars, ctor>>

\* lines 151-160: the failure e-mail, then return.
CeleryFailureEmail(t) ==
    /\ CeleryAt(t, "email_f")
    /\ SendEmail(t, "failure")
    /\ SetWorker(t, [workers[t] EXCEPT !.pc = "done"])
    /\ UNCHANGED <<now, notifications, tasks, schedVars, queryVars, ctor>>

(* ============================ specifications =========================== *)
TaskIds == 1..MaxTasks

\* The application's stores and sessions at process start.
InitSystem ==
    /\ now = ClockStart
    /\ notifications = <<>>
    /\ tasks = <<>>
    /\ workers = <<>>
    /\ outbox = <<>>
    /\ uploads = [d \in {} |-> NULL]
    /\ nextUploadId = 1
    /\ scheduler = "none"
    /\ jobs = {}
    /\ sess = [s \in Sessions |-> NewSession]
    /\ returned = NULL

\* No query is being edited and no SchedulerManager is being constructed.
Init ==
    /\ InitSystem
    /\ sql = NULL
    /\ builder = NULL
    /\ ctor = NULL

NextTasks ==
    \/ \E s \in Sessions : SubmitBackgroundQuery(s)
    \/ CeleryEnqueue
    \/ \E t \in TaskIds :
        \/ ExecRunning(t)
        \/ ExecConnect(t)
        \/ ExecConnFail(t)
        \/ ExecQuery(t)
        \/ ExecQueryOverrun(t)
        \/ ExecCompleted(t)
        \/ ExecCompletionEmail(t)
        \/ ExecCompletionNotify(t)
        \/ ExecFailed(t)
        \/ ExecFailureEmail(t)
        \/ ExecFailureNotify(t)
        \/ CeleryRunning(t)
        \/ CeleryConnect(t)
        \/ CeleryQuery(t)
        \/ CeleryTimeLimit(t)
        \/ CeleryCompleted(t)
        \/ CeleryCompletionNotify(t)
        \/ CeleryCompletionEmail(t)
        \/ CeleryClose(t)
        \/ CeleryFailed(t)
        \/ CeleryFailureNotify(t)
        \/ CeleryFailureEmail(t)

SpecTasks == Init /\ [][NextTasks]_vars

\* One step of the executor of task t: any statement group of the thread
\* or of the Celery task, a query that outlasts the time limit left aside.
WorkerStep(t) ==
    \/ ExecRunning(t)
    \/ ExecConnect(t)
    \/ ExecConnFail(t)
    \/ ExecQuery(t)
    \/ ExecCompleted(t)
    \/ ExecCompletionEmail(t)
    \/ ExecCompletionNotify(t)
    \/ ExecFailed(t)
    \/ ExecFailureEmail(t)
    \/ ExecFailureNotify(t)
    \/ CeleryRunning(t)
    \/ CeleryConnect(t)
    \/ CeleryQuery(t)
    \/ CeleryCompleted(t)
    \/ CeleryCompletionNotify(t)
    \/ CeleryCompletionEmail(t)
    \/ CeleryClose(t)
    \/ CeleryFailed(t)
    \/ CeleryFailureNotify(t)
    \/ CeleryFailureEmail(t)

NextTasksFair ==
    \/ \E s \in Sessions : SubmitBackgroundQuery(s)
    \/ CeleryEnqueue
    \/ \E t \in TaskIds : WorkerStep(t)

\* The ledger with running workers: a started thread and a Celery worker
\* process are scheduled by the operating system, so an executor that can
\* take a step eventually takes one, and so does a script inside
\* submit_background_query.
SpecTasksFair ==
    /\ Init
    /\ [][NextTasksFair]_vars
    /\ \A t \in TaskIds : WF_vars(WorkerStep(t))
    /\ \A s \in Sessions : WF_vars(SubmitStartThread(s) \/ SubmitNotify(s))

(* ===================== scheduled uploads and scheduler ================= *)
UploadIds == 1..MaxUploads

\* Row of scheduled_uploads.  source_path, credentials and next_run are
\* carried through to the trigger unchanged and decide nothing here.
UploadRow(username, source_type, table_name, frequency, is_active, is_approved) ==
    [username |-> username, source_type |-> source_type, table_name |-> table_name,
     frequency |-> frequency, is_active |-> is_active, is_approved |-> is_approved,
     last_run |-> NULL]

\* INSERT INTO scheduled_uploads: the new row gets the next AUTOINCREMENT id.
InsertUpload(row) ==
    /\ uploads' = [d \in DOMAIN uploads \cup {nextUploadId} |->
                      IF d = nextUploadId THEN row ELSE uploads[d]]
    /\ nextUploadId' = nextUploadId + 1

\* DELETE FROM scheduled_uploads WHERE id = ?
DeleteUpload(d) == uploads' = [e \in DOMAIN uploads \ {d} |-> uploads[e]]

\* register_task, line 46: job_id = f"{source_type}_{table_name}_{int(time.time())}"
RegisterJobId(source_type, table_name) == <<source_type, table_name, now>>

\* delete_scheduled_upload, line 563:
\* job_id = f"{schedule_info[1]}_{schedule_info[0]}_{upload_id}"
DeleteJobId(source_type, table_name, upload_id) == <<source_type, table_name, upload_id>>

\* register_task, lines 49-65: DateTrigger for "once", IntervalTrigger otherwise.
Trigger(frequency) == IF frequency = "once" THEN "date" ELSE "interval"

\* register_task, lines 68-74: add_job(..., id=job_id, replace_existing=True)
\* replaces the job of the same id and keeps every other job.  desc records
\* the descriptor the registration was made for (the code does not keep it).
AddJob(store, source_type, table_name, frequency, d) ==
    {j \in store : j.id # RegisterJobId(source_type, table_name)}
        \cup {[id |-> RegisterJobId(source_type, table_name),
               trigger |-> Trigger(frequency),
               source_type |-> source_type, table_name |-> table_name,
               desc |-> d]}

\* remove_job(job_id); JobLookupError is swallowed.
RemoveJob(store, job_id) == {j \in store : j.id # job_id}

\* The script of a session has run app.py lines 67-76 before any handler.
ScriptRunning == scheduler = "started"

\* Process start (class attribute _scheduler = None) followed by the first
\* SchedulerManager(): initialize_scheduler creates and starts an empty
\* BackgroundScheduler when none exists.
InitializeScheduler ==
    /\ scheduler = "none"
    /\ scheduler' = "started"
    /\ jobs' = {}
    /\ UNCHANGED <<commonVars, taskVars, uploads, nextUploadId, sess, returned, queryVars, ctor>>

\* The process ends and is started again: the class attribute and the job
\* store are gone, running scripts are gone, sql_gui.db persists.
Restart ==
    /\ scheduler = "started"
    /\ scheduler' = "none"
    /\ jobs' = {}
    /\ sess' = [s \in Sessions |-> NewSession]
    /\ returned' = NULL
    /\ UNCHANGED <<commonVars, taskVars, uploads, nextUploadId, queryVars, ctor>>

CanNotify == Len(notifications) < MaxNotifs

\* add_notification from a handler or a job: the INSERT into notifications
\* succeeds ("ok") or its sqlite error is swallowed ("store_fail").
Notify(outcome, n) ==
    /\ outcome = "ok" => CanNotify
    /\ StoreNotification(outcome, n)

StoreOutcomes == {"ok", "store_fail"}

\* UploadManager.create_scheduled_upload, admin branch (lines 478-495).
CreateScheduledUploadAdmin(s, source_type, table_name, frequency) ==
    /\ ScriptRunning
    /\ sess[s].pc = "idle"
    /\ SessionRole(s) = "admin"
    /\ nextUploadId <= MaxUploads
    /\ InsertUpload(UploadRow(SessionUser(s), source_type, table_name, frequency, TRUE, TRUE))
    /\ jobs' = AddJob(jobs, source_type, table_name, frequency, nextUploadId)
    /\ Return(s, "created")
    /\ UNCHANGED <<commonVars, taskVars, scheduler, queryVars, ctor>>

\* lines 499-507: SELECT COUNT(*) ... WHERE username = ? AND table_name = ?
\* AND is_approved = 0
PendingCount(username, table_name) ==
    Cardinality({d \in DOMAIN uploads :
                    /\ uploads[d].username = username
                    /\ uploads[d].table_name = table_name
                    /\ ~uploads[d].is_approved})

\* UploadManager.create_scheduled_upload, non-admin branch, first statement
\* (lines 497-509): count the pending requests, return the error if any.
CreateRequestCheck(s, source_type, table_name, frequency) ==
    /\ ScriptRunning
    /\ sess[s].pc = "idle"
    /\ SessionRole(s) # "admin"
    /\ nextUploadId <= MaxUploads
    /\ IF PendingCount(SessionUser(s), table_name) > 0
       THEN Return(s, "pending")
       ELSE /\ sess' = [sess EXCEPT ![s].pc = "insert",
                                    ![s].arg = <<source_type, table_name, frequency>>]
            /\ UNCHANGED returned
    /\ UNCHANGED <<commonVars, taskVars, uploads, nextUploadId, scheduler, jobs, queryVars, ctor>>

\* Variant of CreateRequestInsert that relies on the column defaults
\* (is_approved = 1, is_active = 1) instead of passing 0, 0.
CreateRequestInsertDefaults(s) ==
    /\ sess[s].pc = "insert"
    /\ nextUploadId <= MaxUploads
    /\ InsertUpload(UploadRow(SessionUser(s), sess[s].arg[1], sess[s].arg[2],
                              sess[s].arg[3], TRUE, TRUE))
    /\ \E stored \in StoreOutcomes :
          Notify(stored, Notification("approval_request", "requested", sess[s].arg[2], "admin"))
    /\ Return(s, "submitted")
    /\ UNCHANGED <<now, taskVars, scheduler, jobs, queryVars, ctor>>

\* non-admin branch, second statement (lines 511-531): INSERT the request
\* with is_approved = 0, is_active = 0, commit, notify "admin".
CreateRequestInsert(s) ==
    /\ sess[s].pc = "insert"
    /\ nextUploadId <= MaxUploads
    /\ InsertUpload(UploadRow(SessionUser(s), sess[s].arg[1], sess[s].arg[2],
                              sess[s].arg[3], FALSE, FALSE))
    /\ \E stored \in StoreOutcomes :
          Notify(stored, Notification("approval_request", "requested", sess[s].arg[2], "admin"))
    /\ Return(s, "submitted")
    /\ UNCHANGED <<now, taskVars, scheduler, jobs, queryVars, ctor>>

\* SchedulerManager.create_scheduled_upload (lines 574-600), reached from
\* render_scheduler_interface, which returns early unless role is admin
\* (line 312): INSERT with the column defaults is_active = 1,
\* is_approved = 1, then register_task.
SchedulerCreateScheduledUpload(s, source_type, table_name, frequency) ==
    /\ ScriptRunning
    /\ sess[s].pc = "idle"
    /\ SessionRole(s) = "admin"
    /\ nextUploadId <= MaxUploads
    /\ InsertUpload(UploadRow(SessionUser(s), source_type, table_name, frequency, TRUE, TRUE))
    /\ jobs' = AddJob(jobs, source_type, table_name, frequency, nextUploadId)
    /\ Return(s, "True")
    /\ UNCHANGED <<commonVars, taskVars, scheduler, queryVars, ctor>>

\* Rows listed by get_scheduled_uploads (WHERE username = ?), the ids the
\* "Your Scheduled Uploads" tab passes to toggle and delete.
OwnUploads(s) == {d \in DOMAIN uploads : uploads[d].username = SessionUser(s)}

\* UPDATE scheduled_uploads SET is_active = ? WHERE id = ?
SetActive(d, is_active) == uploads' = [uploads EXCEPT ![d].is_active = is_active]

\* UploadManager.toggle_scheduled_upload (lines 571-582), called for an own,
\* approved row with the opposite of its is_active (lines 288-298).  Only
\* the row is written.
ToggleScheduledUpload(s, d) ==
    /\ ScriptRunning
    /\ sess[s].pc = "idle"
    /\ d \in OwnUploads(s)
    /\ uploads[d].is_approved
    /\ SetActive(d, ~uploads[d].is_active)
    /\ Return(s, "True")
    /\ UNCHANGED <<commonVars, taskVars, nextUploadId, scheduler, jobs, queryVars, ctor>>

\* SchedulerManager.toggle_scheduled_upload (lines 525-539), admin tab, any
\* row of get_all_scheduled_uploads (lines 376-385).  Only the row is written.
SchedulerToggleScheduledUpload(s, d) ==
    /\ ScriptRunning
    /\ sess[s].pc = "idle"
    /\ SessionRole(s) = "admin"
    /\ d \in DOMAIN uploads
    /\ SetActive(d, ~uploads[d].is_active)
    /\ Return(s, "True")
    /\ UNCHANGED <<commonVars, taskVars, nextUploadId, scheduler, jobs, queryVars, ctor>>

\* UploadManager.delete_scheduled_upload (lines 584-595), own row (line
\* 302): DELETE the row, return True.  The job store is not touched.
DeleteScheduledUpload(s, d) ==
    /\ ScriptRunning
    /\ sess[s].pc = "idle"
    /\ d \in OwnUploads(s)
    /\ DeleteUpload(d)
    /\ Return(s, "True")
    /\ UNCHANGED <<commonVars, taskVars, nextUploadId, scheduler, jobs, queryVars, ctor>>

\* SchedulerManager.delete_scheduled_upload (lines 541-572), admin tab:
\* DELETE the row, then remove_job of the id built from the row id.
SchedulerDeleteScheduledUpload(s, d) ==
    /\ ScriptRunning
    /\ sess[s].pc = "idle"
    /\ SessionRole(s) = "admin"
    /\ d \in DOMAIN uploads
    /\ DeleteUpload(d)
    /\ jobs' = RemoveJob(jobs, DeleteJobId(uploads[d].source_type, uploads[d].table_name, d))
    /\ Return(s, "True")
    /\ UNCHANGED <<commonVars, taskVars, nextUploadId, scheduler, queryVars, ctor>>

Reasons == {"", "bad source"}

\* Variant of approve_upload_request without the role gate of lines 634-635.
ApproveWithoutRoleGate(s, request_id) ==
    /\ ScriptRunning
    /\ sess[s].pc = "idle"
    /\ IF request_id \notin DOMAIN uploads
       THEN /\ Return(s, "not_found")
            /\ UNCHANGED <<notifications, uploads, jobs>>
       ELSE /\ uploads' = [uploads EXCEPT ![request_id].is_approved = TRUE,
                                          ![request_id].is_active = TRUE]
            /\ jobs' = AddJob(jobs, uploads[request_id].source_type,
                              uploads[request_id].table_name,
                              uploads[request_id].frequency, request_id)
            /\ \E stored \in StoreOutcomes :
                  Notify(stored, Notification("approval_approved", "approved",
                      uploads[request_id].table_name, uploads[request_id].username))
            /\ Return(s, "approved")
    /\ UNCHANGED <<now, taskVars, nextUploadId, scheduler, queryVars, ctor>>

\* UploadManager.approve_upload_request (lines 631-682): role gate, row
\* lookup by id, UPDATE is_approved = 1, is_active = 1, register_task,
\* notification to the requester.  The row's is_approved is not read.
ApproveUploadRequest(s, request_id) ==
    /\ ScriptRunning
    /\ sess[s].pc = "idle"
    /\ IF SessionRole(s) # "admin"
       THEN /\ Return(s, "denied_approve")
            /\ UNCHANGED <<notifications, uploads, jobs>>
       ELSE IF request_id \notin DOMAIN uploads
       THEN /\ Return(s, "not_found")
            /\ UNCHANGED <<notifications, uploads, jobs>>
       ELSE /\ uploads' = [uploads EXCEPT ![request_id].is_approved = TRUE,
                                          ![request_id].is_active = TRUE]
            /\ jobs' = AddJob(jobs, uploads[request_id].source_type,
                              uploads[request_id].table_name,
                              uploads[request_id].frequency, request_id)
            /\ \E stored \in StoreOutcomes :
                  Notify(stored, Notification("approval_approved", "approved",
                      uploads[request_id].table_name, uploads[request_id].username))
            /\ Return(s, "approved")
    /\ UNCHANGED <<now, taskVars, nextUploadId, scheduler, queryVars, ctor>>

\* UploadManager.decline_upload_request (lines 684-733): role gate, row
\* lookup by id, DELETE, notification to the requester with the reason
\* appended when it is not empty.  The row's is_approved is not read.
DeclineUploadRequest(s, request_id, reason) ==
    /\ ScriptRunning
    /\ sess[s].pc = "idle"
    /\ IF SessionRole(s) # "admin"
       THEN /\ Return(s, "denied_decline")
            /\ UNCHANGED <<notifications, uploads>>
       ELSE IF request_id \notin DOMAIN uploads
       THEN /\ Return(s, "not_found")
            /\ UNCHANGED <<notifications, uploads>>
       ELSE /\ DeleteUpload(request_id)
            /\ \E stored \in StoreOutcomes :
                  Notify(stored,
                      [Notification("approval_declined", "declined",
                           uploads[request_id].table_name, uploads[request_id].username)
                       EXCEPT !.detail = IF reason # "" THEN Some(reason) ELSE NULL])
            /\ Return(s, "declined")
    /\ UNCHANGED <<now, taskVars, nextUploadId, scheduler, jobs, queryVars, ctor>>

UploadOutcomes == {"download_null", "connect_fail", "store_fail", "ok", "raise"}

\* update_last_run (lines 276-294): UPDATE scheduled_uploads SET last_run
\* WHERE source_type = ? AND table_name = ?
UpdateLastRun(rows, source_type, table_name) ==
    [d \in DOMAIN rows |->
        IF rows[d].source_type = source_type /\ rows[d].table_name = table_name
        THEN [rows[d] EXCEPT !.last_run = Some(now)]
        ELSE rows[d]]

\* The scheduler fires job j: execute_scheduled_upload (lines 78-126) runs
\* download, connect, store, update_last_run and writes one notification for
\* "system".  update_last_run swallows a sqlite error (written = FALSE); the
\* notification is stored, lost in add_notification, or add_notification
\* raises.  A DateTrigger job leaves the store after its run.
Fire(j) ==
    /\ ScriptRunning
    /\ j \in jobs
    /\ \E o \in UploadOutcomes, n \in NotifyOutcomes :
       \E written \in IF o = "ok" THEN BOOLEAN ELSE {FALSE} :
        /\ uploads' = IF o = "ok" /\ written
                      THEN UpdateLastRun(uploads, j.source_type, j.table_name)
                      ELSE uploads
        /\ Notify(n,
               Notification("scheduled_upload",
                            IF o = "ok" THEN "completed" ELSE "failed",
                            j.table_name, "system"))
    /\ jobs' = IF j.trigger = "date" THEN jobs \ {j} ELSE jobs
    /\ UNCHANGED <<now, taskVars, nextUploadId, scheduler, sess, returned, queryVars, ctor>>

NextSched ==
    \/ Tick
    \/ InitializeScheduler
    \/ Restart
    \/ \E s \in Sessions, source_type \in SourceTypes, table_name \in Tables,
          frequency \in Frequencies :
        \/ CreateScheduledUploadAdmin(s, source_type, table_name, frequency)
        \/ SchedulerCreateScheduledUpload(s, source_type, table_name, frequency)
        \/ CreateRequestCheck(s, source_type, table_name, frequency)
    \/ \E s \in Sessions : CreateRequestInsert(s)
    \/ \E s \in Sessions, d \in UploadIds :
        \/ ToggleScheduledUpload(s, d)
        \/ SchedulerToggleScheduledUpload(s, d)
        \/ DeleteScheduledUpload(s, d)
        \/ SchedulerDeleteScheduledUpload(s, d)
        \/ ApproveUploadRequest(s, d)
        \/ \E reason \in Reasons : DeclineUploadRequest(s, d, reason)
    \/ \E j \in jobs : Fire(j)

SpecSched == Init /\ [][NextSched]_vars

(* ========================= reading notifications ======================= *)
MaxStored == 2

\* LIMIT 5 of the SELECT in check_notifications.
CheckLimit == 5

\* Notification data the callers of add_notification pass: the type, the
\* parts of the message, and the "username" key, which may be absent.
NotificationData ==
    { <<"background_task", "queued", 1, Some("alice")>>,
      <<"approval_request", "requested", "sales", Some("admin")>>,
      <<"scheduled_upload", "success", "sales", NULL>> }

\* NotificationManager.add_notification: INSERT INTO notifications (type,
\* message, timestamp, username) with notification_data.get("username",
\* "system"); is_read takes the column default 0.  A sqlite error is printed
\* and swallowed.
AddNotification(data, outcome) ==
    /\ Len(notifications) < MaxStored
    /\ StoreNotification(outcome,
           Notification(data[1], data[2], data[3],
                        IF data[4] = NULL THEN "system" ELSE data[4][1]))
    /\ UNCHANGED <<now, taskVars, schedVars, queryVars, ctor>>

\* mark_notification_read on each id of ids: UPDATE notifications SET
\* is_read = 1 WHERE id = ?.
MarkNotificationRead(store, ids) ==
    [i \in DOMAIN store |->
        IF i \in ids THEN [store[i] EXCEPT !.is_read = TRUE] ELSE store[i]]

\* The rows the SELECT of check_notifications can return for a last check
\* time: unread rows with a later timestamp, the newest CheckLimit of them
\* (rows of equal timestamp in either order).
NewNotifications(last_check) ==
    LET new == {i \in DOMAIN notifications :
                   /\ notifications[i].timestamp > last_check
                   /\ ~notifications[i].is_read}
        n == IF Cardinality(new) < CheckLimit THEN Cardinality(new) ELSE CheckLimit
    IN {rows \in SUBSET new :
           /\ Cardinality(rows) = n
           /\ \A i \in rows : \A j \in new \ rows :
                 notifications[i].timestamp >= notifications[j].timestamp}

\* check_notifications, run by app.py line 128 on every script run of an
\* authenticated session: select, set last_notification_check to the
\* current time, then show each row and mark it read.  A failed UPDATE of
\* mark_notification_read is reported and the row stays unread.
CheckNotifications(s) ==
    /\ sess[s].pc = "idle"
    /\ \E rows \in NewNotifications(sess[s].last_notification_check) :
       \E lost \in SUBSET rows :
          notifications' = MarkNotificationRead(notifications, rows \ lost)
    /\ sess' = [sess EXCEPT ![s].last_notification_check = now]
    /\ UNCHANGED <<now, taskVars, uploads, nextUploadId, scheduler, jobs, returned, queryVars, ctor>>

\* The rows the UPDATE of mark_all_notifications_read matches for session s.
MarkAllRows(s) ==
    {i \in DOMAIN notifications :
        \/ SessionRole(s) = "admin"
        \/ notifications[i].username = SessionUser(s)
        \/ notifications[i].username = "system"}

\* A mark-all that deletes the rows it matches instead of updating them.
MarkAllPurge(s) ==
    /\ sess[s].pc = "idle"
    /\ notifications' = SelectSeq(notifications,
            LAMBDA n : ~(\/ SessionRole(s) = "admin"
                         \/ n.username = SessionUser(s)
                         \/ n.username = "system"))
    /\ Return(s, "True")
    /\ UNCHANGED <<now, taskVars, uploads, nextUploadId, scheduler, jobs, queryVars, ctor>>

\* mark_all_notifications_read (the "Mark All as Read" button of the
\* history page): one UPDATE, on every row for an admin, on the rows of the
\* user and of 'system' otherwise; returns True, or False after an error.
MarkAllNotificationsRead(s) ==
    /\ sess[s].pc = "idle"
    /\ \E ok \in BOOLEAN :
        IF ok
        THEN /\ notifications' = MarkNotificationRead(notifications, MarkAllRows(s))
             /\ Return(s, "True")
        ELSE /\ UNCHANGED notifications
             /\ Return(s, "False")
    /\ UNCHANGED <<now, taskVars, uploads, nextUploadId, scheduler, jobs, queryVars, ctor>>

NextNotif ==
    \/ Tick
    \/ \E data \in NotificationData, outcome \in StoreOutcomes :
          AddNotification(data, outcome)
    \/ \E s \in Sessions : CheckNotifications(s)
    \/ \E s \in Sessions : MarkAllNotificationsRead(s)

SpecNotif == Init /\ [][NextNotif]_vars

(* ======================= Identifier Safety Layer ====================== *)
\* execute_and_display_query rewrites the query text with regular
\* expressions when the connection is a psycopg2 one.  The text is kept as
\* its sequence of tokens: a word (a maximal run of [a-zA-Z0-9_]), one of
\* the two-word clause keywords, or a single other character.  The inputs
\* below write keywords in upper case with one space inside ORDER BY and
\* GROUP BY, and no word of theirs contains a keyword, an operator or a
\* table name as a proper part, so every match of the code's expressions
\* begins and ends at a token.
MaxPasses == 2

DQ == "\""
SQ == "'"
SP == " "
Symbols == {SP, ",", SQ, DQ, ".", "*", "(", ")", ";", "=", ">", "<", ">=", "<=", "<>", "!="}
ClauseWords == {"ORDER BY", "GROUP BY"}

\* \w+
IsWord(tok) == tok \notin Symbols \cup ClauseWords

Least(S) == CHOOSE i \in S : \A j \in S : i <= j
Greatest(S) == CHOOSE i \in S : \A j \in S : i >= j
Range(t) == {t[i] : i \in DOMAIN t}
Drop(t, n) == SubSeq(t, n + 1, Len(t))

\* Index of the first token at or after p that is in S (not in S for
\* FindNot), Len(t) + 1 when there is none.
Find(t, p, S) ==
    LET hits == {i \in p..Len(t) : t[i] \in S}
    IN IF hits = {} THEN Len(t) + 1 ELSE Least(hits)

FindNot(t, p, S) ==
    LET hits == {i \in p..Len(t) : t[i] \notin S}
    IN IF hits = {} THEN Len(t) + 1 ELSE Least(hits)

\* \s+ and \s* from position p: the index after the spaces.
SkipSpaces(t, p) == FindNot(t, p, {SP})

\* str.strip()
Strip(t) ==
    LET keep == {i \in DOMAIN t : t[i] # SP}
    IN IF keep = {} THEN <<>> ELSE SubSeq(t, Least(keep), Greatest(keep))

\* str.split(sep)
RECURSIVE Split(_, _)
Split(t, sep) ==
    LET k == Find(t, 1, {sep})
    IN IF k > Len(t) THEN <<t>>
       ELSE <<SubSeq(t, 1, k - 1)>> \o Split(Drop(t, k), sep)

\* str.split(): the parts between runs of white space.
Parts(t) == SelectSeq(Split(t, SP), LAMBDA part : part # <<>>)

\* sep.join(items)
RECURSIVE Join(_, _)
Join(items, sep) ==
    IF items = <<>> THEN <<>>
    ELSE IF Len(items) = 1 THEN items[1]
    ELSE items[1] \o sep \o Join(Tail(items), sep)

\* f'"{name}"'
Quoted(t) == <<DQ>> \o t \o <<DQ>>

\* str.replace(old, new): every occurrence, left to right.
RECURSIVE ReplaceAll(_, _, _)
ReplaceAll(t, old, new) ==
    IF old = <<>> \/ Len(t) < Len(old) THEN t
    ELSE IF SubSeq(t, 1, Len(old)) = old
         THEN new \o ReplaceAll(Drop(t, Len(old)), old, new)
         ELSE <<t[1]>> \o ReplaceAll(Tail(t), old, new)

\* re.findall(r'"([^"]+)"', query): the texts between pairs of double quotes.
RECURSIVE AlreadyQuoted(_)
AlreadyQuoted(t) ==
    LET i == Find(t, 1, {DQ})
        j == Find(t, i + 1, {DQ})
    IN IF j > Len(t) THEN {}
       ELSE IF j = i + 1 THEN AlreadyQuoted(Drop(t, i))
       ELSE {SubSeq(t, i + 1, j - 1)} \cup AlreadyQuoted(Drop(t, j))

\* [a-zA-Z0-9_\.]
IsNamePart(tok) == IsWord(tok) \/ tok = "."

\* re.findall(r'FROM\s+([a-zA-Z0-9_\.]+)') and the same for JOIN.
TableRefs(t, kw) ==
    LET heads == {i \in 1..(Len(t) - 1) :
                     /\ t[i] = kw
                     /\ t[i + 1] = SP
                     /\ SkipSpaces(t, i + 1) <= Len(t)
                     /\ IsNamePart(t[SkipSpaces(t, i + 1)])}
    IN {SubSeq(t, SkipSpaces(t, i + 1),
               FindNot(t, SkipSpaces(t, i + 1), {tok \in Range(t) : IsNamePart(tok)}) - 1) :
        i \in heads}

\* potential_tables: the names after FROM and JOIN that are not among the
\* quoted texts.
PotentialTables(t) ==
    (TableRefs(t, "FROM") \cup TableRefs(t, "JOIN")) \ AlreadyQuoted(t)

\* re.sub(rf'\bFROM\s+{table}\b', f'FROM "{table}"') and the same for JOIN.
RECURSIVE QuoteRef(_, _, _)
QuoteRef(t, kw, table) ==
    IF t = <<>> THEN <<>>
    ELSE LET b == SkipSpaces(t, 2)
             e == b + Len(table)
         IN IF /\ t[1] = kw
               /\ Len(t) >= 2
               /\ t[2] = SP
               /\ e - 1 <= Len(t)
               /\ SubSeq(t, b, e - 1) = table
               /\ (e > Len(t) \/ ~IsWord(t[e]))
            THEN <<kw, SP>> \o Quoted(table) \o QuoteRef(Drop(t, e - 1), kw, table)
            ELSE <<t[1]>> \o QuoteRef(Tail(t), kw, table)

\* re.sub(rf'{table}\.([a-zA-Z0-9_]+)', f'"{table}"."\\1"')
RECURSIVE QuoteQualified(_, _)
QuoteQualified(t, table) ==
    LET n == Len(table)
    IN IF t = <<>> THEN <<>>
       ELSE IF /\ Len(t) >= n + 2
               /\ SubSeq(t, 1, n) = table
               /\ t[n + 1] = "."
               /\ IsWord(t[n + 2])
            THEN Quoted(table) \o <<".">> \o Quoted(<<t[n + 2]>>)
                     \o QuoteQualified(Drop(t, n + 2), table)
            ELSE <<t[1]>> \o QuoteQualified(Tail(t), table)

\* for table in potential_tables: the three substitutions, the tables taken
\* in the order the set yields them.
RECURSIVE QuoteTables(_, _)
QuoteTables(t, order) ==
    IF order = <<>> THEN t
    ELSE QuoteTables(
             QuoteQualified(
                 QuoteRef(QuoteRef(t, "FROM", order[1]), "JOIN", order[1]),
                 order[1]),
             Tail(order))

\* The orders in which iterating a set can yield its elements.
Orders(S) ==
    {o \in [1..Cardinality(S) -> S] : \A i, j \in DOMAIN o : i # j => o[i] # o[j]}

\* The first match of  kw\s+(.*?)(?:stop|...|$)  in t: where it starts, the
\* captured text, and its last token, which is the stop keyword when one
\* ended the match.
ClauseMatch(t, kw, stops) ==
    LET heads == {i \in 1..(Len(t) - 1) : t[i] = kw /\ t[i + 1] = SP}
    IN IF heads = {} THEN NULL
       ELSE LET k == Least(heads)
                b == SkipSpaces(t, k + 1)
                e == Find(t, b, stops)
            IN Some([start |-> k,
                     body |-> SubSeq(t, b, e - 1),
                     end |-> IF e > Len(t) THEN Len(t) ELSE e])

\* re.sub of that expression: every match, stop keyword included, is
\* replaced by rep.
RECURSIVE SubClause(_, _, _, _)
SubClause(t, kw, stops, rep) ==
    LET m == ClauseMatch(t, kw, stops)
    IN IF m = NULL THEN t
       ELSE SubSeq(t, 1, m[1].start - 1) \o rep
                \o SubClause(Drop(t, m[1].end), kw, stops, rep)

\* re.search(r'\(.*\)', item)
HasCall(item) == \E i, j \in DOMAIN item : i < j /\ item[i] = "(" /\ item[j] = ")"

\* re.search(r'\s+AS\s+', item, re.IGNORECASE)
HasAlias(item) ==
    \E i \in 2..(Len(item) - 1) :
        item[i] \in {"AS", "as"} /\ item[i - 1] = SP /\ item[i + 1] = SP

\* One item of the ORDER BY list (lines 213-226): a replaced item is the
\* stripped one, a skipped item stays as split.  (An empty item makes
\* parts[0] raise; the inputs have none.)
OrderItem(raw) ==
    LET item == Strip(raw)
        parts == Parts(item)
    IN IF /\ item # <<>>
          /\ item[1] # DQ
          /\ ~HasCall(item)
          /\ ~HasAlias(item)
          /\ "." \notin Range(parts[1])
       THEN Quoted(parts[1])
                \o (IF Len(parts) > 1 THEN <<SP>> \o Join(Tail(parts), <<SP>>) ELSE <<>>)
       ELSE raw

\* ORDER BY clause, lines 207-231.
RewriteOrderBy(t) ==
    LET m == ClauseMatch(t, "ORDER BY", {"LIMIT"})
    IN IF m = NULL THEN t
       ELSE LET order_items == Split(m[1].body, ",")
                new_order_by ==
                    <<"ORDER BY", SP>>
                        \o Join([i \in DOMAIN order_items |-> OrderItem(order_items[i])],
                                <<",", SP>>)
            IN SubClause(t, "ORDER BY", {"LIMIT"}, new_order_by)

\* The operators of the WHERE expression and the characters [^".\w] that
\* may precede a column name.
Operators == {"=", ">", "<", ">=", "<=", "<>", "!=", "LIKE", "IN", "BETWEEN"}
BeforeColumn == Symbols \ {DQ, "."}

\* re.sub(r'([^".\w])([a-zA-Z0-9_]+)(\s*)(=|>|<|>=|<=|<>|!=|LIKE|IN|BETWEEN)',
\*        r'\1"\2"\3\4', where_clause)
RECURSIVE QuoteColumns(_)
QuoteColumns(t) ==
    IF t = <<>> THEN <<>>
    ELSE LET op == SkipSpaces(t, 3)
         IN IF /\ Len(t) >= 3
               /\ t[1] \in BeforeColumn
               /\ IsWord(t[2])
               /\ op <= Len(t)
               /\ t[op] \in Operators
            THEN <<t[1]>> \o Quoted(<<t[2]>>) \o SubSeq(t, 3, op)
                     \o QuoteColumns(Drop(t, op))
            ELSE <<t[1]>> \o QuoteColumns(Tail(t))

\* WHERE clause, lines 233-246: the substitution on the captured text, put
\* back with query.replace.
RewriteWhere(t) ==
    LET m == ClauseMatch(t, "WHERE", {"GROUP BY", "HAVING", "ORDER BY", "LIMIT"})
    IN IF m = NULL THEN t
       ELSE ReplaceAll(t, m[1].body, QuoteColumns(m[1].body))

\* One item of the GROUP BY list (lines 253-259).
GroupItem(raw) ==
    LET item == Strip(raw)
    IN IF /\ (item = <<>> \/ item[1] # DQ)
          /\ ~HasCall(item)
          /\ "." \notin Range(item)
       THEN Quoted(item)
       ELSE raw

\* GROUP BY clause, lines 248-263.
RewriteGroupBy(t) ==
    LET stops == {"HAVING", "ORDER BY", "LIMIT"}
        m == ClauseMatch(t, "GROUP BY", stops)
    IN IF m = NULL THEN t
       ELSE LET group_items == Split(m[1].body, ",")
                new_group_by ==
                    <<"GROUP BY", SP>>
                        \o Join([i \in DOMAIN group_items |-> GroupItem(group_items[i])],
                                <<",", SP>>)
            IN SubClause(t, "GROUP BY", stops, new_group_by)

\* One item of the SELECT list (lines 271-277).
SelectItem(raw) ==
    LET item == Strip(raw)
    IN IF /\ (item = <<>> \/ item[1] # DQ)
          /\ ~HasCall(item)
          /\ ~HasAlias(item)
          /\ item # <<"*">>
          /\ "." \notin Range(item)
       THEN Quoted(item)
       ELSE raw

\* The first match of  SELECT\s+(.*?)\s+FROM  in t.
SelectMatch(t) ==
    LET ends(b) == {s \in b..Len(t) :
                       /\ t[s] = SP
                       /\ SkipSpaces(t, s) <= Len(t)
                       /\ t[SkipSpaces(t, s)] = "FROM"}
        heads == {i \in 1..(Len(t) - 1) :
                     /\ t[i] = "SELECT"
                     /\ t[i + 1] = SP
                     /\ ends(SkipSpaces(t, i + 1)) # {}}
    IN IF heads = {} THEN NULL
       ELSE LET k == Least(heads)
                b == SkipSpaces(t, k + 1)
                s == Least(ends(b))
            IN Some([start |-> k,
                     body |-> SubSeq(t, b, s - 1),
                     end |-> SkipSpaces(t, s)])

RECURSIVE SubSelect(_, _)
SubSelect(t, rep) ==
    LET m == SelectMatch(t)
    IN IF m = NULL THEN t
       ELSE SubSeq(t, 1, m[1].start - 1) \o rep \o SubSelect(Drop(t, m[1].end), rep)

\* SELECT clause, lines 265-281.
RewriteSelect(t) ==
    LET m == SelectMatch(t)
    IN IF t = <<>> \/ t[1] # "SELECT" \/ m = NULL THEN t
       ELSE LET select_items == Split(m[1].body, ",")
                new_select ==
                    <<"SELECT", SP>>
                        \o Join([i \in DOMAIN select_items |-> SelectItem(select_items[i])],
                                <<",", SP>>)
            IN SubSelect(t, new_select \o <<SP, "FROM">>)

\* Lines 178-281 on a PostgreSQL connection: tables, ORDER BY, WHERE,
\* GROUP BY, SELECT, in this order.
Rewrite(t, order) ==
    RewriteSelect(RewriteGroupBy(RewriteWhere(RewriteOrderBy(QuoteTables(t, order)))))

\* The queries run: SELECT list FROM tables [WHERE] [GROUP BY [HAVING]]
\* [ORDER BY] [LIMIT].
SelectLists ==
    { <<"*">>, <<"a">>, <<"a", ",", SP, "b">>, <<"COUNT", "(", "*", ")", ",", SP, "a">> }
TableExprs ==
    { <<"Orders">>,
      <<"t", SP, "JOIN", SP, "u", SP, "ON", SP, "t", ".", "id", SP, "=", SP, "u", ".", "id">> }
WhereClauses ==
    { <<>>,
      <<SP, "WHERE", SP, "status", SP, "=", SP, SQ, "open", SQ>>,
      <<SP, "WHERE", SP, "a", SP, ">", SP, "1", SP, "AND", SP, "b", SP, "=", SP,
        SQ, "CHECKED", SP, "IN", SQ>>,
      <<SP, "WHERE", SP, "a", SP, "IN", SP, "(", "1", ",", "2", ")", SP, "AND", SP,
        "b", SP, "LIKE", SP, SQ, "x", SQ>> }
GroupByClauses ==
    { <<>>,
      <<SP, "GROUP BY", SP, "a">>,
      <<SP, "GROUP BY", SP, "a", ",", SP, "b", SP, "HAVING", SP,
        "COUNT", "(", "*", ")", SP, ">", SP, "1">> }
OrderByClauses ==
    { <<>>,
      <<SP, "ORDER BY", SP, "a", SP, "DESC">>,
      <<SP, "ORDER BY", SP, "a", ",", SP, "b">> }
LimitClauses == { <<>>, <<SP, "LIMIT", SP, "5">> }

Queries ==
    { <<"SELECT", SP>> \o sel \o <<SP, "FROM", SP>> \o tab \o whr \o grp \o ord \o lim :
        sel \in SelectLists, tab \in TableExprs, whr \in WhereClauses,
        grp \in GroupByClauses, ord \in OrderByClauses, lim \in LimitClauses }

\* db_type, from the class of the connection object (lines 170-175).
DbTypes == {"mysql", "postgresql", "sqlite"}

\* A query has been entered on a connection of some type.
InitRewrite ==
    /\ InitSystem
    /\ \E db_type \in DbTypes, query \in Queries :
          sql = [db_type |-> db_type, input |-> query, query |-> query, outputs |-> <<>>]
    /\ builder = NULL
    /\ ctor = NULL

\* execute_and_display_query up to cursor.execute(query): the text handed to
\* the cursor.  Run again on the text it produced.
ExecuteAndDisplayQuery ==
    /\ Len(sql.outputs) < MaxPasses
    /\ \E order \in Orders(PotentialTables(sql.query)) :
          LET out == IF sql.db_type = "postgresql" THEN Rewrite(sql.query, order)
                     ELSE sql.query
          IN sql' = [sql EXCEPT !.query = out, !.outputs = Append(@, out)]
    /\ UNCHANGED <<commonVars, taskVars, schedVars, builder, ctor>>

NextRewrite == ExecuteAndDisplayQuery

SpecRewrite == InitRewrite /\ [][NextRewrite]_vars

(* ========================== Query Synthesizer ========================= *)
\* QueryBuilder._generate_sql builds the text of a query from the
\* components the visual builder collected.  Texts are token sequences as
\* above; the value of a filter is kept as its words with " AND " and ","
\* as tokens of their own.
MaxFilters == 2

\* The grave accent that quotes identifiers on MySQL, as a token.
BQ == "<grave>"

\* any(c.isupper() for c in name)
HasUpper(name) == name \in {"Orders"}

\* agg_function.lower()
Lower(agg_function) == IF agg_function = "SUM" THEN "sum" ELSE "count"

\* One entry of select_parts (lines 303-329).  A column is <<name>> or
\* <<table, ".", name>>.
SelectPart(column, aggregations, db_type, quote_char) ==
    LET dotted == "." \in Range(column)
        col_name == column[Len(column)]
        ref == IF dotted /\ db_type = "postgresql" /\ HasUpper(column[1])
               THEN <<quote_char, column[1], quote_char, ".",
                      quote_char, col_name, quote_char>>
               ELSE column
    IN IF column \in DOMAIN aggregations
       THEN <<aggregations[column], "(">> \o ref
                \o <<")", SP, "AS", SP, col_name, "_", Lower(aggregations[column])>>
       ELSE ref

\* One JOIN clause (line 343).
JoinClause(join) ==
    <<join.join_type, SP, join.right_table, SP, "ON", SP,
      join.left_table, ".", join.left_column, SP, "=", SP,
      join.right_table, ".", join.right_column>>

\* float(value) succeeds.
IsFloat(value) == Strip(value) \in {<<"10">>, <<"20">>}

\* A rendering without the fallback: BETWEEN is written whatever the value.
ConditionStrNoFallback(condition) ==
    <<condition.column, SP, condition.operator, SP, SQ>> \o condition.value \o <<SQ>>

\* condition_str of one filter (lines 351-370).
ConditionStr(condition) ==
    LET column == condition.column
        value == condition.value
    IN IF condition.operator = "IN"
       THEN LET values == Split(value, ",")
            IN <<column, SP, "IN", SP, "(">>
                   \o Join([i \in DOMAIN values |-> <<SQ>> \o Strip(values[i]) \o <<SQ>>],
                           <<",", SP>>)
                   \o <<")">>
       ELSE IF condition.operator = "BETWEEN"
       THEN LET values == Split(value, " AND ")
            IN IF Len(values) = 2
               THEN <<column, SP, "BETWEEN", SP, SQ>> \o Strip(values[1])
                        \o <<SQ, SP, "AND", SP, SQ>> \o Strip(values[2]) \o <<SQ>>
               ELSE <<column, SP, "=", SP, SQ>> \o value \o <<SQ>>
       ELSE IF condition.operator = "LIKE"
       THEN <<column, SP, "LIKE", SP, SQ, "%">> \o value \o <<"%", SQ>>
       ELSE IF IsFloat(value)
            THEN <<column, SP, condition.operator, SP>> \o value
            ELSE <<column, SP, condition.operator, SP, SQ>> \o value \o <<SQ>>

\* A where part that carries its combinator whenever the filter has one.
WherePartAlways(i, condition) ==
    IF condition.condition_operator # NULL
    THEN <<condition.condition_operator[1], SP>> \o ConditionStr(condition)
    ELSE ConditionStr(condition)

\* The entry of where_parts for the filter at position i, counted from 1
\* (lines 372-376).
WherePart(i, condition) ==
    IF i > 1 /\ condition.condition_operator # NULL
    THEN <<condition.condition_operator[1], SP>> \o ConditionStr(condition)
    ELSE ConditionStr(condition)

\* A synthesizer that puts LIMIT 100 on a query without a limit.
GenerateSqlDefaultLimit(qc, db_type) ==
    <<"SELECT", SP>> \o Join(qc.select_columns, <<",", SP>>)
        \o <<"\n", "FROM", SP, qc.tables[1]>>
        \o <<"\n", "LIMIT", SP, IF qc.limit = NULL THEN "100" ELSE ToString(qc.limit[1]), ";">>

\* _generate_sql (lines 293-417).
GenerateSql(qc, db_type) ==
    LET quote_char == IF db_type = "postgresql" THEN DQ ELSE BQ
        select_clause ==
            <<"SELECT", SP>>
                \o Join([i \in DOMAIN qc.select_columns |->
                            SelectPart(qc.select_columns[i], qc.aggregations,
                                       db_type, quote_char)],
                        <<",", SP>>)
        first_table == qc.tables[1]
        from_clause ==
            IF db_type = "postgresql" /\ HasUpper(first_table)
            THEN <<"FROM", SP, quote_char, first_table, quote_char>>
            ELSE <<"FROM", SP, first_table>>
        join_clauses == [i \in DOMAIN qc.joins |-> JoinClause(qc.joins[i])]
        where_clause ==
            IF qc.where_conditions # <<>>
            THEN <<"WHERE", SP>>
                     \o Join([i \in DOMAIN qc.where_conditions |->
                                 WherePart(i, qc.where_conditions[i])],
                             <<SP>>)
            ELSE <<>>
        group_by_clause ==
            IF qc.group_by # <<>>
            THEN <<"GROUP BY", SP>> \o Join(qc.group_by, <<",", SP>>)
            ELSE <<>>
        order_by_clause ==
            IF qc.order_by # <<>>
            THEN <<"ORDER BY", SP>>
                     \o Join([i \in DOMAIN qc.order_by |->
                                 qc.order_by[i].column
                                     \o <<SP, qc.order_by[i].direction>>],
                             <<",", SP>>)
            ELSE <<>>
        limit_clause ==
            IF qc.limit # NULL /\ qc.limit[1] # 0
            THEN <<"LIMIT", SP, ToString(qc.limit[1])>>
            ELSE <<>>
        sql_parts ==
            <<select_clause, from_clause>> \o join_clauses
                \o (IF where_clause # <<>> THEN <<where_clause>> ELSE <<>>)
                \o (IF group_by_clause # <<>> THEN <<group_by_clause>> ELSE <<>>)
                \o (IF order_by_clause # <<>> THEN <<order_by_clause>> ELSE <<>>)
                \o (IF limit_clause # <<>> THEN <<limit_clause>> ELSE <<>>)
    IN Join(sql_parts, <<"\n">>) \o <<";">>

\* The filters the builder offers: a column, an operator of the select box
\* and the text typed as value; for BETWEEN the two typed texts joined by
\* " AND ".
Filters ==
    { [column |-> "x", operator |-> "=", value |-> <<"10">>],
      [column |-> "x", operator |-> "!=", value |-> <<"open">>],
      [column |-> "x", operator |-> "LIKE", value |-> <<"op">>],
      [column |-> "x", operator |-> "IN", value |-> <<"1", ",", SP, "2">>],
      [column |-> "x", operator |-> "BETWEEN", value |-> <<"10", " AND ", "20">>],
      [column |-> "x", operator |-> "BETWEEN", value |-> <<SP, "1", " AND ", "2", SP>>],
      [column |-> "x", operator |-> "BETWEEN", value |-> <<"10">>],
      [column |-> "x", operator |-> "BETWEEN",
       value |-> <<"1", " AND ", "2", " AND ", "3">>] }

\* where_conditions: every filter after the first has its combinator; the
\* first has none when it comes from the form of the builder.
WithCombinator(filter, c) ==
    [column |-> filter.column, operator |-> filter.operator,
     value |-> filter.value, condition_operator |-> c]

WhereConditions ==
    UNION { {conds \in [1..n -> {WithCombinator(f, c) :
                                   f \in Filters,
                                   c \in {NULL, Some("AND"), Some("OR")}}] :
                /\ \A i \in 2..n : conds[i].condition_operator # NULL
                /\ n >= 1 => conds[1].condition_operator \in {NULL, Some("OR")}} :
            n \in 0..MaxFilters }

QueryDescriptions ==
    { [tables |-> tables, select_columns |-> cols, aggregations |-> aggs,
       joins |-> IF Len(tables) = 2
                 THEN <<[join_type |-> jt, left_table |-> tables[1],
                         right_table |-> tables[2], left_column |-> "id",
                         right_column |-> "id"]>>
                 ELSE <<>>,
       where_conditions |-> conds,
       group_by |-> IF grouped THEN <<cols[1]>> ELSE <<>>,
       order_by |-> IF ordered THEN <<[column |-> cols[1], direction |-> "DESC"]>>
                    ELSE <<>>,
       limit |-> limit] :
      tables \in {<<"Orders">>, <<"orders", "items">>},
      cols \in {<<<<"x">>>>, <<<<"Orders", ".", "x">>, <<"y">>>>},
      aggs \in {<<>>, [c \in {<<"y">>} |-> "SUM"]},
      jt \in {"INNER JOIN"},
      conds \in WhereConditions,
      grouped \in BOOLEAN, ordered \in BOOLEAN,
      limit \in {NULL, Some(10)} }

\* The builder holds a description; current_db is PostgreSQL or MySQL.
InitBuilder ==
    /\ InitSystem
    /\ sql = NULL
    /\ \E qc \in QueryDescriptions, db_type \in {"postgresql", "mysql"} :
          builder = [components |-> qc, db_type |-> db_type, sql |-> NULL]
    /\ ctor = NULL

\* "Generate SQL": the text of the description is built.
GenerateSqlStep ==
    /\ builder.sql = NULL
    /\ builder' = [builder EXCEPT
                      !.sql = Some(GenerateSql(builder.components, builder.db_type))]
    /\ UNCHANGED <<commonVars, taskVars, schedVars, sql, ctor>>

NextBuilder == GenerateSqlStep

SpecBuilder == InitBuilder /\ [][NextBuilder]_vars

(* ================= construction of the SchedulerManager ================ *)
\* Script threads of one process, each running SchedulerManager(...) and
\* then register_task on its instance.  ctor holds the class attributes
\* _scheduler and _lock, the BackgroundScheduler objects created so far,
\* and each thread's position.
Threads == {"t1", "t2", "t3"}

CtorInit ==
    [pc |-> [th \in Threads |-> "idle"],
     lock |-> "free",
     cls_scheduler |-> NULL,
     schedulers |-> <<>>,
     target |-> [th \in Threads |-> NULL]]

CtorGoto(th, label) == [ctor EXCEPT !.pc[th] = label]

CtorFrame == UNCHANGED <<commonVars, taskVars, schedVars, queryVars>>

\* __init__ (lines 19-25): keep the connection, call initialize_scheduler.
Construct(th) ==
    /\ ctor.pc[th] = "idle"
    /\ ctor' = CtorGoto(th, "acquire")
    /\ CtorFrame

\* An acquire that does not wait for the lock to be free.
AcquireUnlocked(th) ==
    /\ ctor.pc[th] = "acquire"
    /\ ctor' = [CtorGoto(th, "check") EXCEPT !.lock = th]
    /\ CtorFrame

\* with cls._lock: (line 30) the thread waits until the lock is free.
Acquire(th) ==
    /\ ctor.pc[th] = "acquire"
    /\ ctor.lock = "free"
    /\ ctor' = [CtorGoto(th, "check") EXCEPT !.lock = th]
    /\ CtorFrame

\* if cls._scheduler is None: (line 31)
CheckScheduler(th) ==
    /\ ctor.pc[th] = "check"
    /\ ctor' = CtorGoto(th, IF ctor.cls_scheduler = NULL THEN "create" ELSE "release")
    /\ CtorFrame

\* cls._scheduler = BackgroundScheduler() (line 32)
CreateScheduler(th) ==
    /\ ctor.pc[th] = "create"
    /\ ctor' = [CtorGoto(th, "start") EXCEPT
                   !.schedulers = Append(@, [started |-> FALSE, jobs |-> {}]),
                   !.cls_scheduler = Some(Len(ctor.schedulers) + 1)]
    /\ CtorFrame

\* cls._scheduler.start() and the atexit registration (lines 33-37).
StartScheduler(th) ==
    /\ ctor.pc[th] = "start"
    /\ ctor' = [CtorGoto(th, "release") EXCEPT
                   !.schedulers[ctor.cls_scheduler[1]].started = TRUE]
    /\ CtorFrame

\* End of the with block: the lock is released and the constructor returns.
Release(th) ==
    /\ ctor.pc[th] = "release"
    /\ ctor' = [CtorGoto(th, "ready") EXCEPT !.lock = "free"]
    /\ CtorFrame

\* register_task on the thread's instance (lines 67-76):
\* SchedulerManager._scheduler.add_job(...).
RegisterTask(th) ==
    /\ ctor.pc[th] = "ready"
    /\ ctor' = [CtorGoto(th, "registered") EXCEPT
                   !.schedulers[ctor.cls_scheduler[1]].jobs = @ \cup {th},
                   !.target[th] = ctor.cls_scheduler]
    /\ CtorFrame

InitCtor ==
    /\ InitSystem
    /\ sql = NULL
    /\ builder = NULL
    /\ ctor = CtorInit

NextCtor ==
    \E th \in Threads :
        \/ Construct(th)
        \/ Acquire(th)
        \/ CheckScheduler(th)
        \/ CreateScheduler(th)
        \/ StartScheduler(th)
        \/ Release(th)
        \/ RegisterTask(th)

SpecCtor == InitCtor /\ [][NextCtor]_vars

(* ====================== properties of the Task Ledger ================== *)
Terminal(status) == status \in {"completed", "failed"}

LegalTransitions ==
    {<<"queued", "running">>, <<"running", "completed">>, <<"running", "failed">>}

\* Notification rows about the terminal transition of task t.
TerminalNotifications(t) ==
    {i \in DOMAIN notifications :
        /\ notifications[i].type = "background_task"
        /\ notifications[i].ref = t
        /\ notifications[i].event \in {"completed", "failed"}}

EmailsSent(t) == {i \in DOMAIN outbox : outbox[i].task = t}

\* C1: a task's status changes only along queued -> running -> completed or
\* queued -> running -> failed; no write skips running and a terminal status
\* is never changed again.
C1_StatusFollowsStateMachine ==
    [][\A t \in DOMAIN tasks :
          tasks'[t].status # tasks[t].status
              => <<tasks[t].status, tasks'[t].status>> \in LegalTransitions]_vars

\* C2: when the executor has returned and the task is terminal, exactly one
\* notification row was written for the terminal transition and, if the task
\* has a notify e-mail, exactly one e-mail was sent (none otherwise).
C2_ExactlyOneNoticePerTerminal ==
    \A t \in DOMAIN tasks :
        (workers[t].pc = "done" /\ Terminal(tasks[t].status))
            => /\ Cardinality(TerminalNotifications(t)) = 1
               /\ Cardinality(EmailsSent(t)) = IF tasks[t].email # NULL THEN 1 ELSE 0

\* C3: a task is terminal if and only if its completed_at is set.
C3_CompletedAtIffTerminal ==
    \A t \in DOMAIN tasks :
        Terminal(tasks[t].status) <=> tasks[t].completed_at # NULL

\* C4: a task has a result_path only if its status is completed and its
\* query returned at least one row.
C4_ResultPathOnlyCompletedWithRows ==
    \A t \in DOMAIN tasks :
        tasks[t].result_path # NULL
            => tasks[t].status = "completed" /\ workers[t].rows = "rows"

\* C5: the ledger rejects completed on a queued task and leaves the row
\* unchanged; completed on a running task succeeds and sets completed_at.
C5_LedgerRejectsIllegalTransition ==
    [][\A t \in DOMAIN tasks :
          /\ tasks[t].status = "queued" => tasks'[t].status # "completed"
          /\ (tasks[t].status = "running" /\ tasks'[t].status = "completed")
                => tasks'[t].completed_at # NULL]_vars

(* ================== properties of the executors ======================== *)
\* C15: an error raised while a task executes never leaves the executor.
C15_NoErrorEscapesExecutor ==
    \A t \in DOMAIN workers : ~workers[t].escaped

\* The executor of task t has returned after a failure of its execution.
ReturnedAfterFailure(t) ==
    /\ workers[t].pc = "done"
    /\ workers[t].err # NULL \/ workers[t].conn = "none"

\* C16: when the executor has returned after an execution failure the task
\* is failed and has a recorded error message.
C16_FailureEndsFailedWithMessage ==
    \A t \in DOMAIN tasks :
        ReturnedAfterFailure(t)
            => tasks[t].status = "failed" /\ tasks[t].error_message # NULL

\* C17: when an executor has returned, the database connection it opened
\* has been closed.
C17_ConnectionReleasedOnReturn ==
    \A t \in DOMAIN workers : workers[t].pc = "done" => workers[t].conn # "open"

\* The task whose submit call session s is in.
SubmittedTask(s) == sess[s].arg[1]

\* C18: when submit_background_query returns after the queued row was
\* committed and the worker was started, it returns the id of that row; and
\* a worker is started only for a row that is already recorded as queued.
C18_SubmitReturnsTaskId ==
    [][/\ \A s \in Sessions :
            (sess[s].pc \in {"start_thread", "notify"} /\ sess'[s].pc = "idle")
                => (workers'[SubmittedTask(s)].pc # "unstarted"
                      => returned' = <<s, "task_id", SubmittedTask(s)>>)
       /\ \A t \in DOMAIN workers :
            (workers[t].pc = "unstarted" /\ workers'[t].pc # "unstarted")
                => t \in DOMAIN tasks /\ tasks[t].status = "queued"]_vars

\* C18 witness: the call has returned the id of task 1 while the worker it
\* started has already written running.
C18_Witness ==
    /\ returned = <<"a1", "task_id", 1>>
    /\ 1 \in DOMAIN tasks
    /\ tasks[1].status = "running"

\* C20: no task is in status running after its time limit has expired.
C20_NoRunningPastTimeLimit ==
    \A t \in DOMAIN tasks :
        (tasks[t].status = "running" /\ tasks[t].started_at # NULL)
            => now <= tasks[t].started_at[1] + task_time_limit

(* ================== properties of the scheduler registry =============== *)
\* Triggers in the registry that were registered for descriptor d.
TriggersOf(d) == {j \in jobs : j.desc = d}

Live(d) == uploads[d].is_active /\ uploads[d].is_approved

\* C6: after any sequence of register calls the registry holds at most one
\* trigger per descriptor id.
C6_AtMostOneTriggerPerDescriptor ==
    \A d \in UploadIds : Cardinality(TriggersOf(d)) <= 1

\* C7: no trigger remains in the registry for a descriptor whose row has
\* been deleted.
C7_DeleteRemovesRegistration ==
    \A j \in jobs : j.desc \in DOMAIN uploads

\* C8: a descriptor that has a trigger in the registry is is_active and
\* is_approved; a descriptor toggled to inactive has none.
C8_RegisteredOnlyWhileActiveAndApproved ==
    \A d \in DOMAIN uploads : TriggersOf(d) # {} => Live(d)

\* C9: the step that initialises the scheduler leaves a trigger in the
\* registry for every stored descriptor that is is_active and is_approved,
\* and for no other descriptor.
C9_StartupReplaysStorage ==
    [][(scheduler = "none" /\ scheduler' = "started")
          => \A d \in DOMAIN uploads' :
                (uploads'[d].is_active /\ uploads'[d].is_approved)
                    <=> (\E j \in jobs' : j.desc = d)]_vars

\* C10: for every owner and table at most one descriptor with
\* is_approved = false exists, also when two sessions of the owner submit
\* their requests concurrently.
C10_AtMostOnePendingPerOwnerTable ==
    \A u \in Users, table_name \in Tables : PendingCount(u, table_name) <= 1

(* ================== properties of the approval workflow ================ *)
\* C11: a row is created approved, active and registered when its owner is
\* an admin, and not approved, not active and not registered otherwise; no
\* row of an admin is ever in the requested state.
C11_CreatedStateFollowsRole ==
    [][/\ \A d \in DOMAIN uploads' \ DOMAIN uploads :
            IF Role(uploads'[d].username) = "admin"
            THEN /\ uploads'[d].is_approved
                 /\ uploads'[d].is_active
                 /\ {j \in jobs' : j.desc = d} # {}
            ELSE /\ ~uploads'[d].is_approved
                 /\ ~uploads'[d].is_active
                 /\ {j \in jobs' : j.desc = d} = {}
       /\ \A d \in DOMAIN uploads' :
            ~uploads'[d].is_approved => Role(uploads'[d].username) # "admin"]_vars

\* C11 witness: a requested, unregistered row of a viewer next to an
\* approved, active, registered row of an admin.
C11_Witness ==
    \E d \in DOMAIN uploads, e \in DOMAIN uploads :
        /\ Role(uploads[d].username) # "admin"
        /\ ~uploads[d].is_approved /\ ~uploads[d].is_active /\ TriggersOf(d) = {}
        /\ Role(uploads[e].username) = "admin"
        /\ Live(e) /\ TriggersOf(e) # {}

\* C12: approve moves a requested row to approved and active with exactly
\* one trigger; approve on a row that is already approved changes neither
\* the row nor its triggers.
C12_ApproveOnlyRequestedOnce ==
    [][\A d \in DOMAIN uploads \cap DOMAIN uploads' :
          /\ (~uploads[d].is_approved /\ uploads'[d].is_approved)
                => /\ uploads'[d].is_active
                   /\ Cardinality({j \in jobs' : j.desc = d}) = 1
          /\ (uploads[d].is_approved /\ \E s \in Sessions : ApproveUploadRequest(s, d))
                => /\ uploads'[d] = uploads[d]
                   /\ {j \in jobs' : j.desc = d} \subseteq TriggersOf(d)]_vars

\* C13: an admin's decline deletes a requested row, never an approved one,
\* and appends one notification to the requester that carries the reason
\* when one is given; a deleted id never comes back.
C13_DeclineOnlyRequested ==
    [][/\ \A s \in Sessions, d \in DOMAIN uploads, reason \in Reasons :
            (SessionRole(s) = "admin" /\ DeclineUploadRequest(s, d, reason))
                => /\ ~uploads[d].is_approved
                   /\ d \notin DOMAIN uploads'
                   /\ Len(notifications') = Len(notifications) + 1
                   /\ notifications'[Len(notifications')].type = "approval_declined"
                   /\ notifications'[Len(notifications')].username = uploads[d].username
                   /\ notifications'[Len(notifications')].detail =
                          IF reason # "" THEN Some(reason) ELSE NULL
       /\ \A d \in 1..(nextUploadId - 1) :
            d \notin DOMAIN uploads => d \notin DOMAIN uploads']_vars

\* C14: approve and decline called by a session whose role is not admin
\* return the permission failure and change no row, no trigger and no
\* notification; a requested row becomes approved or registered only in an
\* admin's approve.
C14_NonAdminCannotApproveOrDecline ==
    [][/\ \A s \in Sessions, d \in UploadIds :
            (/\ SessionRole(s) # "admin"
             /\ \/ ApproveUploadRequest(s, d)
                \/ \E reason \in Reasons : DeclineUploadRequest(s, d, reason))
                => /\ returned' \in {<<s, "denied_approve">>, <<s, "denied_decline">>}
                   /\ UNCHANGED <<uploads, jobs, notifications>>
       /\ \A d \in DOMAIN uploads :
            (/\ ~uploads[d].is_approved
             /\ \/ d \in DOMAIN uploads' /\ uploads'[d].is_approved
                \/ {j \in jobs' : j.desc = d} # {})
                => \E s \in Sessions :
                      SessionRole(s) = "admin" /\ ApproveUploadRequest(s, d)]_vars

\* C14 witness: a viewer's call was refused while a request is pending.
C14_Witness ==
    /\ returned = <<"a1", "denied_approve">>
    /\ \E d \in DOMAIN uploads : ~uploads[d].is_approved /\ TriggersOf(d) = {}

\* C19: a run of the trigger of descriptor d changes the last_run of no
\* other descriptor.
C19_LastRunOnlyOnExecutedDescriptor ==
    [][\A j \in jobs :
          Fire(j) => \A d \in DOMAIN uploads :
                        uploads'[d].last_run # uploads[d].last_run => d = j.desc]_vars

(* ================== properties of the notification store =============== *)
\* C21: the notification store is append-only.  No step removes a
\* notification or changes its type, message, timestamp or target, and
\* is_read only goes from unread to read.
C21_NotificationStoreAppendOnly ==
    [][/\ Len(notifications') >= Len(notifications)
       /\ \A i \in DOMAIN notifications :
            /\ notifications'[i].type = notifications[i].type
            /\ notifications'[i].event = notifications[i].event
            /\ notifications'[i].ref = notifications[i].ref
            /\ notifications'[i].detail = notifications[i].detail
            /\ notifications'[i].timestamp = notifications[i].timestamp
            /\ notifications'[i].username = notifications[i].username
            /\ notifications[i].is_read => notifications'[i].is_read]_vars

\* C21 case: a notification that was marked read is still stored, followed
\* by a later one that is unread.
C21_Witness ==
    \E i, j \in DOMAIN notifications :
        /\ i < j
        /\ notifications[i].is_read
        /\ ~notifications[j].is_read
        /\ notifications[j].timestamp > notifications[i].timestamp

\* The notifications a step marks read.
Flipped ==
    {i \in DOMAIN notifications :
        ~notifications[i].is_read /\ notifications'[i].is_read}

\* C28: when a session whose role is not admin runs check_notifications or
\* mark_all_notifications_read, every notification the step marks read is
\* addressed to the session's user or to 'system'.
C28_ReadOnlyOwnNotifications ==
    [][\A s \in Sessions :
          (/\ SessionRole(s) # "admin"
           /\ CheckNotifications(s) \/ MarkAllNotificationsRead(s))
          => \A i \in Flipped :
                notifications[i].username \in {SessionUser(s), "system"}]_vars

(* ================ properties of the Identifier Safety Layer ============ *)
\* C22: on PostgreSQL the rewrite is idempotent: run on its own output it
\* returns that output unchanged.
C22_RewriteIdempotent ==
    sql.db_type = "postgresql" =>
        \A i \in 2..Len(sql.outputs) : sql.outputs[i] = sql.outputs[i - 1]

\* The single-quoted literals of a text, in order.
RECURSIVE Literals(_)
Literals(t) ==
    LET i == Find(t, 1, {SQ})
        j == Find(t, i + 1, {SQ})
    IN IF j > Len(t) THEN <<>>
       ELSE <<SubSeq(t, i + 1, j - 1)>> \o Literals(Drop(t, j))

\* C23: every single-quoted literal of the input is in the rewritten text
\* unchanged, also a literal that contains an operator keyword.
C23_LiteralsUnchanged ==
    (sql.db_type = "postgresql" /\ sql.outputs # <<>>) =>
        Literals(sql.outputs[1]) = Literals(sql.input)

\* The clause that keyword kw opens in t: from kw to the next clause keyword.
ClauseText(t, kw) ==
    LET k == Find(t, 1, {kw})
    IN Strip(SubSeq(t, k, Find(t, k + 1, {"HAVING", "ORDER BY", "LIMIT"}) - 1))

\* C24: a clause keyword that follows a GROUP BY or ORDER BY list in the
\* input is still in the rewritten text, and a HAVING or LIMIT clause there
\* keeps its tokens.
C24_RewriteKeepsFollowingClause ==
    (sql.db_type = "postgresql" /\ sql.outputs # <<>>) =>
        \A kw \in {"HAVING", "ORDER BY", "LIMIT"} :
            (\E i, j \in DOMAIN sql.input :
                /\ i < j
                /\ sql.input[i] \in {"GROUP BY", "ORDER BY"}
                /\ sql.input[j] = kw)
            => /\ kw \in Range(sql.outputs[1])
               /\ kw # "ORDER BY" =>
                     ClauseText(sql.outputs[1], kw) = ClauseText(sql.input, kw)

(* ================== properties of the Query Synthesizer ================ *)
\* The lines of a generated text, without the final ";".
Lines(out) == Split(SubSeq(out, 1, Len(out) - 1), "\n")

Count(t, tok) == Cardinality({i \in DOMAIN t : t[i] = tok})

\* The clause keywords a description calls for, in the fixed order.
ExpectedHeads(qc) ==
    <<"SELECT", "FROM">>
        \o [i \in DOMAIN qc.joins |-> qc.joins[i].join_type]
        \o (IF qc.where_conditions # <<>> THEN <<"WHERE">> ELSE <<>>)
        \o (IF qc.group_by # <<>> THEN <<"GROUP BY">> ELSE <<>>)
        \o (IF qc.order_by # <<>> THEN <<"ORDER BY">> ELSE <<>>)
        \o (IF qc.limit # NULL THEN <<"LIMIT">> ELSE <<>>)

\* C25: the generated text has its clauses in the order SELECT, FROM, JOIN*,
\* WHERE, GROUP BY, ORDER BY, LIMIT, one SELECT and one FROM, an optional
\* clause exactly when its input is present, and ends with ";": with limit
\* 10 it ends with LIMIT 10; and without a limit it has no LIMIT.
C25_ClausesInFixedOrder ==
    builder.sql # NULL =>
        LET out == builder.sql[1]
            qc == builder.components
            lines == Lines(out)
        IN /\ out[Len(out)] = ";"
           /\ [i \in DOMAIN lines |-> lines[i][1]] = ExpectedHeads(qc)
           /\ Count(out, "SELECT") = 1
           /\ Count(out, "FROM") = 1
           /\ qc.limit = Some(10) =>
                 SubSeq(out, Len(out) - 3, Len(out)) = <<"LIMIT", SP, "10", ";">>
           /\ qc.limit = NULL => Count(out, "LIMIT") = 0

\* C25 case: a text was generated for a description with a join, filters,
\* grouping, ordering and limit 10.
C25_Witness ==
    /\ builder.sql # NULL
    /\ builder.components.joins # <<>>
    /\ builder.components.where_conditions # <<>>
    /\ builder.components.group_by # <<>>
    /\ builder.components.order_by # <<>>
    /\ builder.components.limit = Some(10)

\* The WHERE line of a generated text.
WhereLine(out) ==
    LET lines == Lines(out)
    IN lines[CHOOSE i \in DOMAIN lines : lines[i][1] = "WHERE"]

\* What a BETWEEN filter must render as: with a value of two parts around
\* " AND ", column BETWEEN 'a' AND 'b' (the parts without the white space
\* around them); with any other value, column = 'value'.
BetweenText(c) ==
    LET parts == Split(c.value, " AND ")
    IN IF Len(parts) = 2
       THEN <<c.column, SP, "BETWEEN", SP, SQ>> \o Strip(parts[1])
                \o <<SQ, SP, "AND", SP, SQ>> \o Strip(parts[2]) \o <<SQ>>
       ELSE <<c.column, SP, "=", SP, SQ>> \o c.value \o <<SQ>>

IsPrefix(p, t) == Len(p) <= Len(t) /\ SubSeq(t, 1, Len(p)) = p
IsSuffix(p, t) == Len(p) <= Len(t) /\ SubSeq(t, Len(t) - Len(p) + 1, Len(t)) = p

RECURSIVE Combined(_)
Combined(conds) ==
    IF Len(conds) = 1 THEN ConditionStr(conds[1])
    ELSE Combined(SubSeq(conds, 1, Len(conds) - 1))
             \o <<SP, conds[Len(conds)].condition_operator[1], SP>>
             \o ConditionStr(conds[Len(conds)])

\* C27: the WHERE clause of n filters is the first condition without a
\* combinator followed by each further condition after its own combinator,
\* in input order.
C27_CombinatorsBetweenConditions ==
    (builder.sql # NULL /\ builder.components.where_conditions # <<>>) =>
        WhereLine(builder.sql[1])
            = <<"WHERE", SP>> \o Combined(builder.components.where_conditions)

\* C27 case: a text was generated from two filters of which the first
\* carries a combinator too.
C27_Witness ==
    /\ builder.sql # NULL
    /\ Len(builder.components.where_conditions) >= 2
    /\ builder.components.where_conditions[1].condition_operator # NULL

(* ============ properties of the SchedulerManager construction ========== *)
\* C29: however the constructions interleave, at most one
\* BackgroundScheduler is created and at most one is started, and every
\* instance that registered a job registered it into that started scheduler.
C29_OneSchedulerPerProcess ==
    /\ Len(ctor.schedulers) <= 1
    /\ \A th \in Threads :
          ctor.pc[th] = "registered" =>
              /\ ctor.target[th] = Some(1)
              /\ ctor.schedulers[1].started
              /\ th \in ctor.schedulers[1].jobs

\* C29 case: two threads have constructed a SchedulerManager and registered
\* a job while a third is inside its constructor.
C29_Witness ==
    \E a, b, c \in Threads :
        /\ a # b
        /\ ctor.pc[a] = "registered"
        /\ ctor.pc[b] = "registered"
        /\ ctor.pc[c] \in {"check", "release"}
        /\ Len(ctor.schedulers) = 1

(* ===================== termination of the executors ==================== *)
\* C30: a task whose executor has started eventually has status completed
\* or failed, whatever the outcome of its status and notification writes.
C30_EveryTaskEventuallyTerminal ==
    \A t \in TaskIds :
        (t \in DOMAIN workers /\ workers[t].pc # "unstarted")
            ~> (t \in DOMAIN tasks /\ Terminal(tasks[t].status))

=============================================================================
